---- MODULE Spec2Model ----
(***************************************************************************)
(* Model of the calculator tool server (src/mcp_calculator_server.py) and  *)
(* of the client script that drives it (src/crew.py).                      *)
(*                                                                         *)
(* Server: four tool handlers registered once in a catalog; every          *)
(* invocation runs its handler line by line in a frame of its own, so      *)
(* invocations of different callers interleave at line granularity.  The   *)
(* only object the handlers share is the logger.                           *)
(*                                                                         *)
(* Client: the module-level script of crew.py: enter the connection        *)
(* context, print the tools, build agent/task/crew, kick off if tools were *)
(* loaded, leave the context, report an exception if one was raised.       *)
(* Which tool calls the agent makes during kickoff() is decided by the     *)
(* language model behind the agent, not by the script: it is a             *)
(* nondeterministic choice among the loaded tools.                         *)
(*                                                                         *)
(* Numbers: Python int is unbounded (no wrap-around); a float quotient is  *)
(* kept as the exact reduced fraction num/den tagged "float".              *)
(***************************************************************************)
EXTENDS Integers, Sequences, FiniteSets, TLC

VARIABLES
    registry,   \* the server's tool catalog: sequence of tool descriptors
    log,        \* records emitted through the process-wide logger
    frames,     \* frames[i]: the invocation i of a handler (0 is the agent's)
    locals,     \* storage of the handlers' local variable `result`
    cpc,        \* client script: position
    conn,       \* client script: "none" | "held" | "released"
    connected,  \* client script: "no" | "ok" | "failed" (outcome of line 11)
    tools,      \* client script: the tool names bound by `as tools`
    task,       \* client script: calculations listed by calculator_task
    stdout,     \* client script: what it printed
    issued,     \* tool calls the agent issued, in order
    observed,   \* outcomes the agent received, in order
    pending,    \* client script: an exception is propagating
    attempts,   \* number of times line 11 was executed
    kickoffs    \* number of times line 47 was executed

vars == << registry, log, frames, locals, cpc, conn, connected, tools, task,
           stdout, issued, observed, pending, attempts, kickoffs >>

serverVars == << registry, log, frames, locals >>

clientVars == << cpc, conn, connected, tools, task, stdout, issued, observed,
                 pending, attempts, kickoffs >>

----------------------------------------------------------------------------
(* Bounds *)

\* invocations by callers other than the agent (all of them may be in flight)
MaxCalls == 2

\* tool calls the agent may issue during one kickoff
MaxAgentCalls == 4

----------------------------------------------------------------------------
(* Values *)

Abs(n) == IF n < 0 THEN -n ELSE n

RECURSIVE Gcd(_, _)
Gcd(m, n) == IF n = 0 THEN m ELSE Gcd(n, m % n)

NoneVal == [type |-> "none", num |-> 0, den |-> 1]

\* a Python int
IntVal(n) == [type |-> "int", num |-> n, den |-> 1]

\* a Python float holding num/den, in lowest terms with den > 0
FloatVal(n, d) ==
    LET g == Gcd(Abs(n), Abs(d))
        s == IF d < 0 THEN -1 ELSE 1
    IN  [type |-> "float", num |-> (s * n) \div g, den |-> (s * d) \div g]

NoOutcome == [kind |-> "none", value |-> NoneVal, exc |-> "", msg |-> ""]

ReturnOf(v) == [kind |-> "return", value |-> v, exc |-> "", msg |-> ""]

RaiseOf(e, m) == [kind |-> "raise", value |-> NoneVal, exc |-> e, msg |-> m]

----------------------------------------------------------------------------
(* Tool catalog: the @mcp.tool() registrations *)

Req(t, x, y) == [tool |-> t, a |-> x, b |-> y]

Param(n, ty) == [name |-> n, type |-> ty]

\* a handler's signature as the decorator reads it
ToolDef(n, ty) ==
    [name |-> n, params |-> << Param("a", ty), Param("b", ty) >>, returns |-> ty]

\* the decorated functions, in the order the module defines them
Handlers ==
    << ToolDef("add_numbers", "int"), ToolDef("subtract_numbers", "int"),
       ToolDef("multiply_numbers", "int"), ToolDef("divide_numbers", "float") >>

RegisterFirstOnly(reg, tool) == IF reg = << >> THEN << tool >> ELSE reg

\* @mcp.tool(): adds the function to the catalog under its own name
Register(reg, tool) ==
    IF \E k \in 1..Len(reg) : reg[k].name = tool.name THEN reg
    ELSE Append(reg, tool)

RECURSIVE RegisterAll(_, _)
RegisterAll(reg, hs) ==
    IF hs = << >> THEN reg ELSE RegisterAll(Register(reg, Head(hs)), Tail(hs))

ToolNames == { Handlers[k].name : k \in 1..Len(Handlers) }

\* what tool discovery answers: the names in the catalog, in order
ListTools(reg) == [k \in 1..Len(reg) |-> reg[k].name]

----------------------------------------------------------------------------
(* The handlers' arithmetic *)

add_wrong(a, b) == IntVal(a - b)

\* line 40: result = a + b
add_numbers(a, b) == IntVal(a + b)

\* line 58: result = a - b
subtract_numbers(a, b) == IntVal(a - b)

\* line 76: result = a * b
multiply_numbers(a, b) == IntVal(a * b)

floor_divide(a, b) ==
    IF b = 0 THEN NoneVal
    ELSE IntVal(IF b > 0 THEN a \div b ELSE (-a) \div (-b))

\* line 99: result = a / b (true division: a float; undefined for b = 0,
\* where Python raises ZeroDivisionError instead: see ComputeResult)
divide_numbers(a, b) == IF b = 0 THEN NoneVal ELSE FloatVal(a, b)

never_zero(b) == FALSE

\* line 96: if b == 0
IsZero(b) == b = 0

Compute(t, a, b) ==
    CASE t = "add_numbers" -> add_numbers(a, b)
      [] t = "subtract_numbers" -> subtract_numbers(a, b)
      [] t = "multiply_numbers" -> multiply_numbers(a, b)
      [] t = "divide_numbers" -> divide_numbers(a, b)

\* the check divide_numbers makes before anything else (lines 96-97)
Rejects(t, b) == t = "divide_numbers" /\ IsZero(b)

SharedResult(i) == 0

\* `result` is a local variable: every invocation has a location of its own
ResultLoc(i) == i

----------------------------------------------------------------------------
(* Inputs *)

\* the four calculations the client's task lists (crew.py lines 27-30)
Calc1 == Req("add_numbers", 15, 27)
Calc2 == Req("subtract_numbers", 50, 10)
Calc3 == Req("multiply_numbers", 8, 6)
Calc4 == Req("divide_numbers", 100, 4)

\* further inputs: a negative operand with zero for every tool (for
\* divide_numbers a zero denominator), a second zero denominator, and a
\* quotient that is not a whole number
EdgeCalls ==
    { Req(t, -7, 0) : t \in ToolNames }
    \cup { Req("divide_numbers", 0, 0), Req("divide_numbers", -7, 2) }

Requests == {Calc1, Calc2, Calc3, Calc4} \cup EdgeCalls

\* what the agent may ask for during kickoff: the language model chooses
AgentRequests == {Calc1, Calc2, Calc3, Calc4, Req("divide_numbers", -7, 0)}

CallIds == 0..MaxCalls

\* the agent's calls run in frame 0, one after the other
Agent == 0

OtherCalls == 1..MaxCalls

IdleFrame == [pc |-> "idle", tool |-> "", a |-> 0, b |-> 0, outcome |-> NoOutcome]

Finished(f) == f.pc \in {"returned", "raised"}

----------------------------------------------------------------------------
(* Server: one invocation of a handler, line by line *)

\* the transport hands a request to the handler
Dispatch(i, r) ==
    /\ frames[i].pc = "idle"
    /\ frames' = [frames EXCEPT ![i] =
                    [pc |-> "called", tool |-> r.tool, a |-> r.a, b |-> r.b,
                     outcome |-> NoOutcome]]

\* divide_numbers lines 96-97: raise ValueError("Cannot divide by zero")
RaiseValueError(i) ==
    /\ frames[i].pc = "called"
    /\ Rejects(frames[i].tool, frames[i].b)
    /\ frames' = [frames EXCEPT ![i].pc = "raised",
                    ![i].outcome = RaiseOf("ValueError", "Cannot divide by zero")]
    /\ UNCHANGED << registry, log, locals >>

\* lines 39, 57, 75, 98: logger.info("Tool called: ...")
LogCalled(i) ==
    /\ frames[i].pc = "called"
    /\ ~Rejects(frames[i].tool, frames[i].b)
    /\ log' = Append(log, [event |-> "called", tool |-> frames[i].tool,
                           a |-> frames[i].a, b |-> frames[i].b,
                           result |-> NoneVal])
    /\ frames' = [frames EXCEPT ![i].pc = "entered"]
    /\ UNCHANGED << registry, locals >>

\* lines 40, 58, 76, 99: result = a <op> b
ComputeResult(i) ==
    /\ frames[i].pc = "entered"
    /\ IF frames[i].tool = "divide_numbers" /\ frames[i].b = 0
       THEN /\ frames' = [frames EXCEPT ![i].pc = "raised",
                            ![i].outcome =
                                RaiseOf("ZeroDivisionError", "division by zero")]
            /\ UNCHANGED locals
       ELSE /\ locals' = [locals EXCEPT ![ResultLoc(i)] =
                            Compute(frames[i].tool, frames[i].a, frames[i].b)]
            /\ frames' = [frames EXCEPT ![i].pc = "computed"]
    /\ UNCHANGED << registry, log >>

\* lines 41, 59, 77, 100: logger.info("Tool completed: ...")
LogCompleted(i) ==
    /\ frames[i].pc = "computed"
    /\ log' = Append(log, [event |-> "completed", tool |-> frames[i].tool,
                           a |-> frames[i].a, b |-> frames[i].b,
                           result |-> locals[ResultLoc(i)]])
    /\ frames' = [frames EXCEPT ![i].pc = "completed"]
    /\ UNCHANGED << registry, locals >>

\* lines 42, 60, 78, 101: return result
ReturnResult(i) ==
    /\ frames[i].pc = "completed"
    /\ frames' = [frames EXCEPT ![i].pc = "returned",
                    ![i].outcome = ReturnOf(locals[ResultLoc(i)])]
    /\ UNCHANGED << registry, log, locals >>

\* a caller other than the agent invokes a tool (ids are handed out in order)
Invoke(i, r) ==
    /\ i = 1 \/ frames[i - 1].pc # "idle"
    /\ Dispatch(i, r)
    /\ UNCHANGED << registry, log, locals >>

Init ==
    /\ registry = RegisterAll(<< >>, Handlers)
    /\ log = << >>
    /\ frames = [i \in CallIds |-> IdleFrame]
    /\ locals = [i \in CallIds |-> NoneVal]
    /\ cpc = "start"
    /\ conn = "none"
    /\ connected = "no"
    /\ tools = << >>
    /\ task = << >>
    /\ stdout = << >>
    /\ issued = << >>
    /\ observed = << >>
    /\ pending = ""
    /\ attempts = 0
    /\ kickoffs = 0

\* the server under concurrent callers
Next ==
    \/ \E i \in OtherCalls, r \in Requests : Invoke(i, r) /\ UNCHANGED clientVars
    \/ \E i \in OtherCalls : RaiseValueError(i) /\ UNCHANGED clientVars
    \/ \E i \in OtherCalls : LogCalled(i) /\ UNCHANGED clientVars
    \/ \E i \in OtherCalls : ComputeResult(i) /\ UNCHANGED clientVars
    \/ \E i \in OtherCalls : LogCompleted(i) /\ UNCHANGED clientVars
    \/ \E i \in OtherCalls : ReturnResult(i) /\ UNCHANGED clientVars

Spec == Init /\ [][Next]_vars

----------------------------------------------------------------------------
(* Client script: crew.py *)

Range(q) == { q[k] : k \in 1..Len(q) }

Out(k, ns, os) == [kind |-> k, names |-> ns, outcomes |-> os]

Printed(k) == \E n \in 1..Len(stdout) : stdout[n].kind = k

task_reordered == << Calc4, Calc3, Calc2, Calc1 >>

\* lines 24-37: the calculations the task description lists, in its order
calculator_task == << Calc1, Calc2, Calc3, Calc4 >>

always_loaded(ts) == TRUE

\* line 46: if tools
ToolsLoaded(ts) == ts # << >>

held_on_exception(exc) == IF exc # "" THEN "held" ELSE "released"

\* line 11: leaving the `with` block calls __exit__, exception or not
ConnAfterExit(exc) == "released"

\* line 52: except Exception
Catches(exc) == exc \in {"ConnectionError", "RuntimeError"}

retry_connection == "start"

\* after the handler's two prints (lines 53-54) the script ends
AfterExcept == "done"

\* line 11, the server cannot be reached or discovery fails: the context
\* expression raises and no connection is held
ConnectFail ==
    /\ cpc = "start"
    /\ attempts' = attempts + 1
    /\ connected' = "failed"
    /\ pending' = "ConnectionError"
    /\ cpc' = "except"
    /\ UNCHANGED << conn, tools, task, stdout, issued, observed, kickoffs >>
    /\ UNCHANGED serverVars

\* line 11, the context is entered: `tools` is what discovery answered
\* (the catalog, or nothing: line 46 provides for an empty list)
ConnectOk ==
    /\ cpc = "start"
    /\ attempts' = attempts + 1
    /\ connected' = "ok"
    /\ conn' = "held"
    /\ \E ts \in {ListTools(registry), << >>} : tools' = ts
    /\ cpc' = "print_tools"
    /\ UNCHANGED << task, stdout, issued, observed, pending, kickoffs >>
    /\ UNCHANGED serverVars

\* line 12
PrintTools ==
    /\ cpc = "print_tools"
    /\ stdout' = Append(stdout, Out("tools", tools, << >>))
    /\ cpc' = "build"
    /\ UNCHANGED << conn, connected, tools, task, issued, observed, pending,
                    attempts, kickoffs >>
    /\ UNCHANGED serverVars

\* lines 15-44: Agent(...), Task(...), Crew(...)
Build ==
    /\ cpc = "build"
    /\ task' = calculator_task
    /\ cpc' = "guard"
    /\ UNCHANGED << conn, connected, tools, stdout, issued, observed, pending,
                    attempts, kickoffs >>
    /\ UNCHANGED serverVars

\* lines 15-44: one of the constructors raises
BuildFail ==
    /\ cpc = "build"
    /\ pending' = "RuntimeError"
    /\ cpc' = "exit_with"
    /\ UNCHANGED << conn, connected, tools, task, stdout, issued, observed,
                    attempts, kickoffs >>
    /\ UNCHANGED serverVars

\* lines 46-47 and 49: kickoff() is entered only if tools were loaded
Guard ==
    /\ cpc = "guard"
    /\ IF ToolsLoaded(tools)
       THEN cpc' = "kickoff" /\ kickoffs' = kickoffs + 1
       ELSE cpc' = "skip" /\ UNCHANGED kickoffs
    /\ UNCHANGED << conn, connected, tools, task, stdout, issued, observed,
                    pending, attempts >>
    /\ UNCHANGED serverVars

\* inside kickoff(): the agent calls one of its tools and waits for the answer
AgentCall(r) ==
    /\ cpc = "kickoff"
    /\ Len(issued) < MaxAgentCalls
    /\ r.tool \in Range(tools)
    /\ Dispatch(Agent, r)
    /\ issued' = Append(issued, r)
    /\ UNCHANGED << registry, log, locals >>
    /\ UNCHANGED << cpc, conn, connected, tools, task, stdout, observed,
                    pending, attempts, kickoffs >>

\* inside kickoff(): the answer (a value or the tool's error) reaches the agent
AgentReceive ==
    /\ cpc = "kickoff"
    /\ Finished(frames[Agent])
    /\ observed' = Append(observed, frames[Agent].outcome)
    /\ frames' = [frames EXCEPT ![Agent] = IdleFrame]
    /\ UNCHANGED << registry, log, locals >>
    /\ UNCHANGED << cpc, conn, connected, tools, task, stdout, issued,
                    pending, attempts, kickoffs >>

\* line 47: kickoff() returns the report
KickoffReturn ==
    /\ cpc = "kickoff"
    /\ frames[Agent].pc = "idle"
    /\ cpc' = "print_result"
    /\ UNCHANGED << conn, connected, tools, task, stdout, issued, observed,
                    pending, attempts, kickoffs >>
    /\ UNCHANGED serverVars

\* line 47: kickoff() raises
KickoffFail ==
    /\ cpc = "kickoff"
    /\ frames[Agent].pc = "idle"
    /\ pending' = "RuntimeError"
    /\ cpc' = "exit_with"
    /\ UNCHANGED << conn, connected, tools, task, stdout, issued, observed,
                    attempts, kickoffs >>
    /\ UNCHANGED serverVars

\* line 48
PrintResult ==
    /\ cpc = "print_result"
    /\ stdout' = Append(stdout, Out("report", << >>, observed))
    /\ cpc' = "exit_with"
    /\ UNCHANGED << conn, connected, tools, task, issued, observed, pending,
                    attempts, kickoffs >>
    /\ UNCHANGED serverVars

\* line 50
PrintSkip ==
    /\ cpc = "skip"
    /\ stdout' = Append(stdout, Out("skip", << >>, << >>))
    /\ cpc' = "exit_with"
    /\ UNCHANGED << conn, connected, tools, task, issued, observed, pending,
                    attempts, kickoffs >>
    /\ UNCHANGED serverVars

\* the end of the `with` block of line 11, reached normally or by an exception
ExitWith ==
    /\ cpc = "exit_with"
    /\ conn' = ConnAfterExit(pending)
    /\ cpc' = IF pending # "" THEN "except" ELSE "done"
    /\ UNCHANGED << connected, tools, task, stdout, issued, observed, pending,
                    attempts, kickoffs >>
    /\ UNCHANGED serverVars

\* lines 52-54
Except ==
    /\ cpc = "except"
    /\ IF Catches(pending)
       THEN /\ stdout' = Append(stdout, Out("error", << >>, << >>))
            /\ pending' = ""
            /\ cpc' = AfterExcept
       ELSE /\ cpc' = "crashed"
            /\ UNCHANGED << stdout, pending >>
    /\ UNCHANGED << conn, connected, tools, task, issued, observed, attempts,
                    kickoffs >>
    /\ UNCHANGED serverVars

\* one run of the client script against the server
ClientNext ==
    \/ ConnectFail
    \/ ConnectOk
    \/ PrintTools
    \/ Build
    \/ BuildFail
    \/ Guard
    \/ \E r \in AgentRequests : AgentCall(r)
    \/ RaiseValueError(Agent) /\ UNCHANGED clientVars
    \/ LogCalled(Agent) /\ UNCHANGED clientVars
    \/ ComputeResult(Agent) /\ UNCHANGED clientVars
    \/ LogCompleted(Agent) /\ UNCHANGED clientVars
    \/ ReturnResult(Agent) /\ UNCHANGED clientVars
    \/ AgentReceive
    \/ KickoffReturn
    \/ KickoffFail
    \/ PrintResult
    \/ PrintSkip
    \/ ExitWith
    \/ Except

ClientSpec == Init /\ [][ClientNext]_vars

\* the script is one sequential thread: it takes its next step while it has one
FairClientSpec == ClientSpec /\ WF_vars(ClientNext)

----------------------------------------------------------------------------
(* Properties *)

ValueError == RaiseOf("ValueError", "Cannot divide by zero")

\* a call run alone: the handler's lines one after the other, nothing between
RunAlone(t, a, b) ==
    IF Rejects(t, b) THEN ValueError ELSE ReturnOf(Compute(t, a, b))

\* the sequence of calls the claim C7 states
Script == << Calc1, Calc2, Calc3, Calc4 >>

IsPrefix(p, q) == Len(p) <= Len(q) /\ \A k \in 1..Len(p) : p[k] = q[k]

LogHas(ev, f) ==
    \E n \in 1..Len(log) :
        /\ log[n].event = ev
        /\ log[n].tool = f.tool /\ log[n].a = f.a /\ log[n].b = f.b

\* C1: every call divide(a, 0) ends in the explicit ValueError("Cannot divide
\* by zero") and never in a value, and it is raised before the division (and
\* anything else in the handler) is reached: such a call is never past its
\* first line except as raised, and the error is not the division's own.
C1_DivideByZeroFails ==
    \A i \in CallIds :
        (frames[i].tool = "divide_numbers" /\ frames[i].b = 0
            /\ frames[i].pc # "called")
        => /\ frames[i].pc = "raised"
           /\ frames[i].outcome = ValueError
           /\ frames[i].outcome.value = NoneVal

\* C1 witness: two calls with zero denominators and different numerators
\* have both failed.
C1_Witness ==
    \E i, j \in CallIds :
        /\ frames[i].pc = "raised" /\ frames[i].a = -7 /\ frames[i].b = 0
        /\ frames[j].pc = "raised" /\ frames[j].a = 0 /\ frames[j].b = 0

\* C2: add, subtract and multiply return a+b, a-b and a*b as integers and
\* never fail, for every argument pair (negative and zero operands included);
\* add(15,27) = 42, subtract(50,10) = 40, multiply(8,6) = 48.
C2_ArithmeticResults ==
    \A i \in CallIds :
        LET f == frames[i] IN
        /\ f.tool \in {"add_numbers", "subtract_numbers", "multiply_numbers"}
            => f.pc # "raised"
        /\ (f.pc = "returned" /\ f.tool = "add_numbers")
            => f.outcome = ReturnOf([type |-> "int", num |-> f.a + f.b, den |-> 1])
        /\ (f.pc = "returned" /\ f.tool = "subtract_numbers")
            => f.outcome = ReturnOf([type |-> "int", num |-> f.a - f.b, den |-> 1])
        /\ (f.pc = "returned" /\ f.tool = "multiply_numbers")
            => f.outcome = ReturnOf([type |-> "int", num |-> f.a * f.b, den |-> 1])
        /\ (f.pc = "returned" /\ Req(f.tool, f.a, f.b) = Calc1)
            => f.outcome.value.num = 42
        /\ (f.pc = "returned" /\ Req(f.tool, f.a, f.b) = Calc2)
            => f.outcome.value.num = 40
        /\ (f.pc = "returned" /\ Req(f.tool, f.a, f.b) = Calc3)
            => f.outcome.value.num = 48

\* C2 witness: add(15,27) has returned 42 and a call with a negative and a
\* zero operand has returned too.
C2_Witness ==
    \E i, j \in CallIds :
        /\ frames[i].pc = "returned" /\ Req(frames[i].tool, frames[i].a, frames[i].b) = Calc1
        /\ frames[i].outcome.value.num = 42
        /\ frames[j].pc = "returned" /\ frames[j].tool = "multiply_numbers"
        /\ frames[j].a = -7 /\ frames[j].b = 0

\* C3: divide(a, b) ends with a value exactly when b is nonzero, and the value
\* is the quotient a/b as a float (divide(100,4) is the float 25.0).
C3_DivideQuotient ==
    \A i \in CallIds :
        LET f == frames[i] IN
        (f.tool = "divide_numbers" /\ Finished(f))
        => /\ (f.pc = "returned") <=> (f.b # 0)
           /\ f.pc = "returned"
                => /\ f.outcome.kind = "return"
                   /\ f.outcome.value.type = "float"
                   /\ f.outcome.value.den > 0
                   /\ f.outcome.value.num * f.b = f.a * f.outcome.value.den
           /\ (f.pc = "returned" /\ f.a = 100 /\ f.b = 4)
                => f.outcome.value = [type |-> "float", num |-> 25, den |-> 1]

\* C3 witness: divide(100,4) has returned 25.0 and divide(-7,2) has returned
\* -3.5.
C3_Witness ==
    \E i, j \in CallIds :
        /\ frames[i].pc = "returned" /\ Req(frames[i].tool, frames[i].a, frames[i].b) = Calc4
        /\ frames[i].outcome.value = [type |-> "float", num |-> 25, den |-> 1]
        /\ frames[j].pc = "returned" /\ frames[j].tool = "divide_numbers"
        /\ frames[j].outcome.value = [type |-> "float", num |-> -7, den |-> 2]

\* C4: in every state the catalog holds exactly the four tools (the code
\* names them add_numbers, subtract_numbers, multiply_numbers and
\* divide_numbers), each with exactly the two numeric parameters a and b,
\* whatever requests have been served or have failed.
C4_CatalogFixed ==
    /\ Len(registry) = 4
    /\ { registry[k].name : k \in 1..Len(registry) }
         = {"add_numbers", "subtract_numbers", "multiply_numbers", "divide_numbers"}
    /\ \A k \in 1..Len(registry) :
        /\ Len(registry[k].params) = 2
        /\ registry[k].params[1].name = "a"
        /\ registry[k].params[2].name = "b"
        /\ \A n \in 1..2 : registry[k].params[n].type \in {"int", "float"}

\* C4 witness: one request has succeeded and another has failed.
C4_Witness ==
    \E i, j \in CallIds : frames[i].pc = "returned" /\ frames[j].pc = "raised"

\* C8 (as the claim states it): every invocation that is past its first line
\* has emitted its entry record, and every one that returned has emitted its
\* completion record after it, divide with b = 0 included.
C8_EveryCallLogged ==
    \A i \in CallIds :
        LET f == frames[i] IN
        /\ f.pc \notin {"idle", "called"} => LogHas("called", f)
        /\ f.pc = "returned" =>
            \E m, n \in 1..Len(log) :
                /\ m < n
                /\ log[m].event = "called" /\ log[n].event = "completed"
                /\ log[m].tool = f.tool /\ log[n].tool = f.tool
                /\ log[n].result = f.outcome.value

\* C10: whatever the interleaving with other invocations and whatever came
\* before, a finished call has the outcome it has when run alone.
C10_CallsIndependent ==
    \A i \in CallIds :
        Finished(frames[i])
        => frames[i].outcome = RunAlone(frames[i].tool, frames[i].a, frames[i].b)

\* C10 witness: two different calls were in their handlers at the same time
\* (both entry records precede any completion record) and both have returned.
C10_Witness ==
    /\ Len(log) >= 4
    /\ log[1].event = "called" /\ log[2].event = "called"
    /\ \E i, j \in CallIds :
        /\ i # j
        /\ frames[i].pc = "returned" /\ frames[j].pc = "returned"
        /\ frames[i].tool # frames[j].tool
        /\ frames[i].outcome # frames[j].outcome

\* C5: kickoff runs only after a successful connection with a non-empty tool
\* list; when the connection failed or no tools were discovered the script
\* ends having printed its error or skip message, with no kickoff and no tool
\* call, and never by an uncaught exception.
C5_NoKickoffWithoutTools ==
    /\ cpc # "crashed"
    /\ (kickoffs > 0 \/ cpc \in {"kickoff", "print_result"})
        => (connected = "ok" /\ tools # << >>)
    /\ (cpc = "done" /\ connected = "failed")
        => (Printed("error") /\ kickoffs = 0 /\ issued = << >>)
    /\ (cpc = "done" /\ connected = "ok" /\ tools = << >>)
        => ((Printed("skip") \/ Printed("error")) /\ kickoffs = 0 /\ issued = << >>)

\* C5 witness: the script has ended after a failed connection.
C5_Witness == cpc = "done" /\ connected = "failed" /\ Printed("error")

\* C6: once acquired, the connection is no longer held when the script is in
\* its exception handler or has ended, on the normal path, the skip path and
\* the exception paths alike.
C6_ConnectionReleased ==
    /\ cpc \in {"except", "done", "crashed"} => conn # "held"
    /\ (cpc \in {"except", "done", "crashed"} /\ connected = "ok")
        => conn = "released"

\* C6 witness: the script has ended after an exception raised during kickoff,
\* with the connection released.
C6_Witness ==
    /\ cpc = "done" /\ conn = "released" /\ kickoffs = 1 /\ Printed("error")

\* C7 (as the claim states it): the calls issued are always the beginning of
\* add(15,27), subtract(50,10), multiply(8,6), divide(100,4), and all four of
\* them once the task sequence has completed.
C7_FixedScript ==
    /\ IsPrefix(issued, Script)
    /\ (cpc = "print_result" \/ Printed("report")) => issued = Script

\* C7 (amended): the task handed to the agent lists the four calculations in
\* the claim's order; every tool call is issued inside the one kickoff, after
\* discovery answered a non-empty tool list and while the connection is held,
\* names a discovered tool, and is answered before the next one is issued.
C7_CallsWithinKickoff ==
    /\ (issued # << >> \/ frames[Agent].pc # "idle")
        => (connected = "ok" /\ tools # << >> /\ kickoffs = 1)
    /\ frames[Agent].pc # "idle" => (cpc = "kickoff" /\ conn = "held")
    /\ \A k \in 1..Len(issued) : issued[k].tool \in Range(tools)
    /\ Len(observed) <= Len(issued) /\ Len(issued) <= Len(observed) + 1
    /\ Len(issued) = Len(observed) + 1 <=> frames[Agent].pc # "idle"
    /\ kickoffs > 0 => task = Script

\* C7 witness: the agent made exactly the four listed calls in order and the
\* script has ended with the report printed.
C7_Witness ==
    /\ cpc = "done" /\ Printed("report") /\ issued = Script
    /\ Len(observed) = 4
    /\ observed[1].value.num = 42 /\ observed[4].value.type = "float"

Rank(pc) ==
    CASE pc = "start" -> 0
      [] pc \in {"print_tools", "build", "guard", "kickoff", "skip",
                 "print_result", "exit_with"} -> 1
      [] pc = "except" -> 2
      [] pc \in {"done", "crashed"} -> 3

\* C9: the script goes from Disconnected through (optionally) Connected to
\* Done and never back: one connection attempt at most, one kickoff at most,
\* no step after Done; it always reaches Done; the tool names are printed
\* before the report, and the report only after a kickoff that returned.
C9_Lifecycle ==
    /\ [](attempts <= 1 /\ kickoffs <= 1)
    /\ [](\A n \in 1..Len(stdout) :
            stdout[n].kind = "report"
            => /\ n > 1 /\ stdout[1].kind = "tools"
               /\ kickoffs = 1 /\ Len(observed) = Len(issued)
               /\ ~Printed("error"))
    /\ [](connected = "ok" /\ Rank(cpc) > 1 => Printed("tools"))
    /\ [][Rank(cpc') >= Rank(cpc) /\ (cpc = "done" => cpc' = "done")]_vars
    /\ <>(cpc = "done")

\* C9 witness: the script is Done with the tool names and then the report
\* printed.
C9_Witness ==
    /\ cpc = "done" /\ Len(stdout) = 2
    /\ stdout[1].kind = "tools" /\ stdout[2].kind = "report"
    /\ attempts = 1 /\ kickoffs = 1

====
